---- MODULE Spec2Model ----
(***************************************************************************)
(* Retrieval-and-conversation engine of app.py: the corpus (pdf_texts,     *)
(* file_details), the ranker (rank_documents), the follow-up question      *)
(* generator (generate_follow_up_questions), the session store             *)
(* (user_query_history), the shared generation context (chat_session) and  *)
(* the two request handlers (/chat, /load_pdfs).                           *)
(*                                                                         *)
(* A Python str is a sequence of one-character strings; a dict is the      *)
(* sequence of its items in insertion order; list positions are 1-based    *)
(* here where Python's are 0-based.                                        *)
(***************************************************************************)
EXTENDS Integers, Sequences, FiniteSets, TLC

(***************************************************************************)
(* Characters and the character classes the regular expressions use.       *)
(***************************************************************************)
LowerSeq == <<"a","b","c","d","e","f","g","h","i","j","k","l","m",
              "n","o","p","q","r","s","t","u","v","w","x","y","z">>
UpperSeq == <<"A","B","C","D","E","F","G","H","I","J","K","L","M",
              "N","O","P","Q","R","S","T","U","V","W","X","Y","Z">>
Lower == {LowerSeq[i] : i \in 1..Len(LowerSeq)}
Upper == {UpperSeq[i] : i \in 1..Len(UpperSeq)}
Digit == {"0","1","2","3","4","5","6","7","8","9"}
\* \s of re, and what str.strip() / str.split() treat as whitespace
Space == {" ", "\n", "\t", "\r"}
\* \w of re
WordChar == Lower \cup Upper \cup Digit \cup {"_"}

\* str.lower() on one character
LowerChar(c) ==
    IF c \in Upper
    THEN LowerSeq[CHOOSE i \in 1..Len(UpperSeq) : UpperSeq[i] = c]
    ELSE c

\* the sequence f[1], ..., f[n] of a function on 1..n, evaluated once
List(f) == f \o <<>>

\* str.lower()
LowerStr(s) == List([i \in 1..Len(s) |-> LowerChar(s[i])])

\* the least and the greatest member of a non-empty set of integers
Min(S) == CHOOSE x \in S : \A y \in S : x <= y
Max(S) == CHOOSE x \in S : \A y \in S : y <= x

\* the members of a set of integers in ascending order
Ascending(S) ==
    List([k \in 1..Cardinality(S) |->
            CHOOSE x \in S : Cardinality({y \in S : y < x}) = k - 1])

\* the concatenation of pieces[lo], ..., pieces[hi]
RECURSIVE Concat(_, _, _)
Concat(pieces, lo, hi) ==
    IF lo > hi THEN <<>>
    ELSE IF lo = hi THEN pieces[lo]
    ELSE LET mid == (lo + hi) \div 2
         IN  Concat(pieces, lo, mid) \o Concat(pieces, mid + 1, hi)

\* the last position of the run of characters of class C that starts at i
RunEnd(s, i, C) ==
    CHOOSE j \in i..Len(s) :
        /\ \A k \in i..j : s[k] \in C
        /\ j = Len(s) \/ s[j + 1] \notin C

\* the first position of the run of characters of class C that ends at i
RunStart(s, i, C) ==
    CHOOSE j \in 1..i :
        /\ \A k \in j..i : s[k] \in C
        /\ j = 1 \/ s[j - 1] \notin C

\* the positions where a run of characters of class C starts
RunStarts(s, C) ==
    {i \in 1..Len(s) : s[i] \in C /\ (i = 1 \/ s[i - 1] \notin C)}

\* the maximal runs of characters of class C, left to right
Runs(s, C) ==
    LET starts == Ascending(RunStarts(s, C))
    IN  List([k \in 1..Len(starts) |->
                SubSeq(s, starts[k], RunEnd(s, starts[k], C))])

\* the characters that are not whitespace, given s
NonSpace(s) == {s[i] : i \in 1..Len(s)} \ Space

\* str.strip(): drop leading and trailing whitespace
Strip(s) ==
    LET inked == {i \in 1..Len(s) : s[i] \notin Space}
    IN  IF inked = {} THEN <<>> ELSE SubSeq(s, Min(inked), Max(inked))

\* str.split(): the maximal runs of non-whitespace characters
Split(s) == Runs(s, NonSpace(s))

\* " ".join(words)
RECURSIVE JoinSpace(_)
JoinSpace(words) ==
    IF words = <<>> THEN <<>>
    ELSE IF Len(words) = 1 THEN words[1]
    ELSE words[1] \o <<" ">> \o JoinSpace(Tail(words))

\* seq[:n]
Take(seq, n) == SubSeq(seq, 1, IF Len(seq) < n THEN Len(seq) ELSE n)

\* x in list
InList(x, list) == \E i \in 1..Len(list) : list[i] = x

(***************************************************************************)
(* generate_follow_up_questions: the text clean-up and the sentence split. *)
(***************************************************************************)
\* whether s[i] is a , or ; that stands between two digits
BetweenDigits(s, i) ==
    /\ s[i] \in {",", ";"}
    /\ i > 1 /\ s[i - 1] \in Digit
    /\ i < Len(s) /\ s[i + 1] \in Digit

\* re.sub(r'(\d+)[,;](\d+)', r'\1 \2', s) replaces s[i]: matches are found
\* left to right and do not overlap, both digit groups are greedy, so a
\* separator whose left digit group was consumed as the right group of the
\* match before it is left alone ("1,2,3" becomes "1 2,3")
RECURSIVE SeparatorMatched(_, _)
SeparatorMatched(s, i) ==
    /\ BetweenDigits(s, i)
    /\ LET before == RunStart(s, i - 1, Digit) - 1
       IN  ~ (before >= 1 /\ SeparatorMatched(s, before))

SubNumberSeparators(s) ==
    List([i \in 1..Len(s) |-> IF SeparatorMatched(s, i) THEN " " ELSE s[i]])

\* re.sub(r'\s+', ' ', s): every run of whitespace becomes one blank
CollapseWhitespace(s) ==
    Concat(List([i \in 1..Len(s) |->
                   IF s[i] \notin Space THEN << s[i] >>
                   ELSE IF i > 1 /\ s[i - 1] \in Space THEN <<>>
                   ELSE << " " >>]),
           1, Len(s))

\* the look-behinds of the split pattern at the whitespace character s[i]:
\*   (?<=\.|\?|\!)       the character before is . ? or !
\*   (?<!\w\.\w.)        the four before are not  word . word any
\*   (?<![A-Z][a-z]\.)   the three before are not Upper lower .
\* ('.' matches any character but a newline)
SentenceBoundary(s, i) ==
    /\ s[i] \in Space
    /\ i > 1 /\ s[i - 1] \in {".", "?", "!"}
    /\ ~ ( /\ i > 4
           /\ s[i - 4] \in WordChar /\ s[i - 3] = "."
           /\ s[i - 2] \in WordChar /\ s[i - 1] # "\n" )
    /\ ~ ( /\ i > 3
           /\ s[i - 3] \in Upper /\ s[i - 2] \in Lower /\ s[i - 1] = "." )

\* re.split(pattern, s): the pieces between the boundary characters
SplitSentences(s) ==
    LET cuts == Ascending({i \in 1..Len(s) : SentenceBoundary(s, i)})
        From(k) == IF k = 1 THEN 1 ELSE cuts[k - 1] + 1
        To(k) == IF k > Len(cuts) THEN Len(s) ELSE cuts[k] - 1
    IN  List([k \in 1..(Len(cuts) + 1) |-> SubSeq(s, From(k), To(k))])

CleanText(relevant_text) ==
    CollapseWhitespace(SubNumberSeparators(relevant_text))

Sentences(relevant_text) == SplitSentences(CleanText(relevant_text))

\* "What about " and "?" of the question template
WhatAbout == <<"W","h","a","t"," ","a","b","o","u","t"," ">>
QuestionMark == <<"?">>

\* a sentence yields a question only when it is longer than this
MinSentenceLen == 20
\* the leading words of the sentence that go into the question
KeyWords == 5
\* the loop stops once this many questions are collected
MaxFollowUps == 3

\* the question built from a (stripped) sentence
QuestionOf(sentence) ==
    WhatAbout \o JoinSpace(Take(Split(sentence), KeyWords)) \o QuestionMark

\* FollowUpLoop without the test of line 131
RECURSIVE FollowUpLoopNoDedup(_, _, _, _)
FollowUpLoopNoDedup(sentences, k, previous_questions, follow_up_questions) ==
    IF k > Len(sentences) THEN follow_up_questions
    ELSE LET sentence == Strip(sentences[k])
             collected ==
                 IF Len(sentence) > MinSentenceLen
                 THEN Append(follow_up_questions, QuestionOf(sentence))
                 ELSE follow_up_questions
         IN  IF Len(collected) >= MaxFollowUps
             THEN collected
             ELSE FollowUpLoopNoDedup(sentences, k + 1, previous_questions,
                                      collected)

\* FollowUpLoop with > for the >= of line 135
RECURSIVE FollowUpLoopLateStop(_, _, _, _)
FollowUpLoopLateStop(sentences, k, previous_questions, follow_up_questions) ==
    IF k > Len(sentences) THEN follow_up_questions
    ELSE LET sentence == Strip(sentences[k])
             question == QuestionOf(sentence)
             collected ==
                 IF /\ Len(sentence) > MinSentenceLen
                    /\ ~ InList(question, previous_questions)
                 THEN Append(follow_up_questions, question)
                 ELSE follow_up_questions
         IN  IF Len(collected) > MaxFollowUps
             THEN collected
             ELSE FollowUpLoopLateStop(sentences, k + 1, previous_questions,
                                       collected)

\* FollowUpLoop with >= for the > of line 126
RECURSIVE FollowUpLoopFrom20(_, _, _, _)
FollowUpLoopFrom20(sentences, k, previous_questions, follow_up_questions) ==
    IF k > Len(sentences) THEN follow_up_questions
    ELSE LET sentence == Strip(sentences[k])
             question == QuestionOf(sentence)
             collected ==
                 IF /\ Len(sentence) >= MinSentenceLen
                    /\ ~ InList(question, previous_questions)
                 THEN Append(follow_up_questions, question)
                 ELSE follow_up_questions
         IN  IF Len(collected) >= MaxFollowUps
             THEN collected
             ELSE FollowUpLoopFrom20(sentences, k + 1, previous_questions,
                                     collected)

\* the for loop over the sentences, from sentence k on, with the list
\* collected so far
RECURSIVE FollowUpLoop(_, _, _, _)
FollowUpLoop(sentences, k, previous_questions, follow_up_questions) ==
    IF k > Len(sentences) THEN follow_up_questions
    ELSE LET sentence == Strip(sentences[k])
             question == QuestionOf(sentence)
             collected ==
                 IF /\ Len(sentence) > MinSentenceLen
                    /\ ~ InList(question, previous_questions)
                 THEN Append(follow_up_questions, question)
                 ELSE follow_up_questions
         IN  IF Len(collected) >= MaxFollowUps
             THEN collected
             ELSE FollowUpLoop(sentences, k + 1, previous_questions, collected)

generate_follow_up_questions(relevant_text, previous_questions) ==
    FollowUpLoop(Sentences(relevant_text), 1, previous_questions, <<>>)

(***************************************************************************)
(* rank_documents: TfidfVectorizer(stop_words='english') and               *)
(* cosine_similarity, then the selection of the three best.                *)
(***************************************************************************)
\* the words of scikit-learn's English stop word list that the texts and
\* queries of this model use
StopWords ==
    { <<"i","s">>, <<"i","n">>, <<"a","r","e">>,
      <<"t","h","e">>, <<"w","h","y">>, <<"w","h","a","t">>,
      <<"a","b","o","u","t">>, <<"i","t">>, <<"a","l","l">>,
      <<"v","e","r","y">>, <<"f","r","o","m">>, <<"o","n","c","e">>,
      <<"a","t">>, <<"a","n","d">>, <<"o","f">>,
      <<"t","o">>, <<"o","n">>, <<"w","a","s">>,
      <<"w","e">>, <<"i","t","s">>,
      <<"m","a","y">>, <<"o","n">> }

\* the vectorizer's analyzer: lower-case, take the tokens of the pattern
\* \b\w\w+\b (runs of two or more word characters), drop the stop words
Tokens(text) ==
    LET IsTerm(run) == Len(run) >= 2 /\ run \notin StopWords
    IN  SelectSeq(Runs(LowerStr(text), WordChar), IsTerm)

\* the analyzer applied to every text: one token list per text
Analyze(texts) == List([i \in 1..Len(texts) |-> Tokens(texts[i])])

Terms(tokens) == {tokens[i] : i \in 1..Len(tokens)}

\* term frequency: the number of occurrences of term among the tokens
Tf(term, tokens) ==
    Cardinality({i \in 1..Len(tokens) : tokens[i] = term})

\* document frequency: the number of token lists the term occurs in
Df(term, docs) ==
    Cardinality({i \in 1..Len(docs) : term \in Terms(docs[i])})

\* smoothed inverse document frequency ln((1 + n) / (1 + df)) + 1 in
\* tenths, n the number of texts (row) and df the document frequency (column)
IdfTenths ==
    << <<10>>,
       <<14, 10>>,
       <<17, 13, 10>>,
       <<19, 15, 12, 10>>,
       <<21, 17, 14, 12, 10>>,
       <<23, 18, 16, 13, 12, 10>>,
       <<24, 20, 17, 15, 13, 11, 10>> >>

\* the tf-idf weight of a term in text i, before normalisation
Weight(term, i, docs) ==
    Tf(term, docs[i]) * IdfTenths[Len(docs)][Df(term, docs)]

\* the sum of f[x] over the members x of a finite set
RECURSIVE SumOver(_, _)
SumOver(f, S) ==
    IF S = {} THEN 0
    ELSE LET x == CHOOSE y \in S : TRUE
         IN  f[x] + SumOver(f, S \ {x})

\* cosine_similarity of the query row q and the document row d of the
\* tf-idf matrix: the square of the cosine (the cosine of two non-negative
\* vectors is non-negative, so the order is the same) in hundredths, 0 for a
\* zero row
CosineScore(q, d, docs) ==
    LET common == Terms(docs[q]) \cap Terms(docs[d])
        dot == SumOver([t \in common |->
                          Weight(t, q, docs) * Weight(t, d, docs)], common)
        nq == SumOver([t \in Terms(docs[q]) |->
                         Weight(t, q, docs) * Weight(t, q, docs)],
                      Terms(docs[q]))
        nd == SumOver([t \in Terms(docs[d]) |->
                         Weight(t, d, docs) * Weight(t, d, docs)],
                      Terms(docs[d]))
    IN  IF nq = 0 \/ nd = 0 THEN 0
        ELSE (100 * dot * dot) \div (nq * nd)

\* cosine_sim.flatten(): one score for every document, in corpus order;
\* the query is the last row of the matrix
CosineSim(all_texts, query) ==
    LET docs == Analyze(Append(all_texts, query))
    IN  List([i \in 1..Len(all_texts) |->
                CosineScore(Len(docs), i, docs)])

\* the orders of the indices 1..n
IndexOrders(n) ==
    {p \in [1..n -> 1..n] : \A i, j \in 1..n : i # j => p[i] # p[j]}

\* argsort(): the index orders that sort the scores ascending; numpy's
\* default sort is not stable, so equal scores may come in any order
Argsorts(cosine_sim) ==
    {p \in IndexOrders(Len(cosine_sim)) :
        \A i, j \in 1..Len(cosine_sim) :
            i < j => cosine_sim[p[i]] <= cosine_sim[p[j]]}

\* seq[::-1]
Reverse(seq) == List([i \in 1..Len(seq) |-> seq[Len(seq) + 1 - i]])

\* the number of documents rank_documents selects
TopK == 3

\* heapq.nsmallest in the place of heapq.nlargest
Nsmallest(n, items, key) ==
    LET Before(i, j) == \/ key[items[i]] < key[items[j]]
                        \/ key[items[i]] = key[items[j]] /\ i < j
        sorted == List([k \in 1..Len(items) |->
                     items[CHOOSE j \in 1..Len(items) :
                         Cardinality({i \in 1..Len(items) : Before(i, j)})
                             = k - 1]])
    IN  Take(sorted, n)

\* heapq.nlargest(n, items, key): sorted(items, key=key, reverse=True)[:n],
\* a stable sort, so items with equal keys keep the order they have in
\* items; key[idx] is the key of the item idx
Nlargest(n, items, key) ==
    LET Before(i, j) == \/ key[items[i]] > key[items[j]]
                        \/ key[items[i]] = key[items[j]] /\ i < j
        sorted == List([k \in 1..Len(items) |->
                     items[CHOOSE j \in 1..Len(items) :
                         Cardinality({i \in 1..Len(items) : Before(i, j)})
                             = k - 1]])
    IN  Take(sorted, n)

\* the messages of the errors rank_documents raises
EmptyCorpus == "No documents found to rank against. Ensure documents are loaded correctly."
EmptyQuery == "Query is empty or contains only whitespace."
EmptyVocabulary == "empty vocabulary; perhaps the documents only contain stop words"
InsufficientCorpus == "There are no valid documents to compare the query against."

\* list(pdf_texts.values())
Values(texts) == List([i \in 1..Len(texts) |-> texts[i].text])

\* RankError with the test of line 98 before the test of line 93
RankErrorQueryFirst(texts, query) ==
    IF Strip(query) = <<>> THEN EmptyQuery
    ELSE IF texts = <<>> THEN EmptyCorpus
    ELSE IF \A i \in 1..(Len(texts) + 1) :
                Tokens(Append(Values(texts), query)[i]) = <<>>
         THEN EmptyVocabulary
    ELSE IF Len(texts) + 1 < 2 THEN InsufficientCorpus
    ELSE ""

\* what rank_documents raises for this corpus and query, "" when it returns
RankError(texts, query) ==
    IF texts = <<>> THEN EmptyCorpus
    ELSE IF Strip(query) = <<>> THEN EmptyQuery
    ELSE IF \A i \in 1..(Len(texts) + 1) :
                Tokens(Append(Values(texts), query)[i]) = <<>>
         THEN EmptyVocabulary
    ELSE IF Len(texts) + 1 < 2 THEN InsufficientCorpus
    ELSE ""

\* what rank_documents returns, argsort having produced the order sorted
RankedDocs(texts, query, sorted) ==
    LET cosine_sim == CosineSim(Values(texts), query)
    IN  Nlargest(TopK, Reverse(sorted), cosine_sim)

\* the results rank_documents may return
rank_documents(texts, query) ==
    {RankedDocs(texts, query, sorted) :
        sorted \in Argsorts(CosineSim(Values(texts), query))}

(***************************************************************************)
(* The texts, file names and queries the model draws its inputs from.      *)
(***************************************************************************)
\* "Sky is blue in clear days. Rain falls."
TextA ==
    <<"S","k","y"," ","i","s"," ","b","l","u","e"," ","i","n"," ","c","l",
        "e","a","r"," ","d","a","y","s","."," ","R","a","i","n"," ","f",
        "a","l","l","s",".">>

\* "Clouds are very gray. Sky is blue in clear nights."
TextB ==
    <<"C","l","o","u","d","s"," ","a","r","e"," ","v","e","r","y"," ","g",
        "r","a","y","."," ","S","k","y"," ","i","s"," ","b","l","u","e",
        " ","i","n"," ","c","l","e","a","r"," ","n","i","g","h","t","s",
        ".">>

\* "Clouds are all gray. Dr. Li paid 1,000 coins once"
TextC ==
    <<"C","l","o","u","d","s"," ","a","r","e"," ","a","l","l"," ","g","r",
        "a","y","."," ","D","r","."," ","L","i"," ","p","a","i","d"," ",
        "1",",","0","0","0"," ","c","o","i","n","s"," ","o","n","c","e">>

\* "Rain falls on gray days. The usual e.g. is May."
TextE ==
    <<"R","a","i","n"," ","f","a","l","l","s"," ","o","n"," ","g","r","a",
        "y"," ","d","a","y","s","."," ","T","h","e"," ","u","s","u","a",
        "l"," ","e",".","g","."," ","i","s"," ","M","a","y",".">>

\* "notes"
TextN ==
    <<"n","o","t","e","s">>

\* "", the text of an empty file
TextEmpty == <<>>

NameA == <<"a",".","t","x","t">>
NameB == <<"b",".","p","d","f">>
NameC == <<"c",".","t","x","t">>
NameD == <<"d",".","t","x","t">>
NameE == <<"e",".","t","x","t">>
NameN == <<"n","o","t","e","s",".","m","d">>

\* "why is the sky blue"
QuerySky == <<"w","h","y"," ","i","s"," ","t","h","e"," ","s","k","y"," ","b","l",
      "u","e">>

\* "is it?"
QueryStop == <<"i","s"," ","i","t","?">>

\* "  "
QueryBlank == <<" "," ">>

\* " ok.\n", what the generation service answers
ReplyText == <<" ","o","k",".","\n">>

\* the session identifiers: "default" of line 183, and "s1"
Default == <<"d","e","f","a","u","l","t">>
SessionOne == <<"s","1">>

\* FILES_DIRECTORY and the separator os.path.join puts after it
FILES_DIRECTORY == <<"f","i","l","e","s">>
PathSep == <<"/">>
DotPdf == <<".","p","d","f">>
DotTxt == <<".","t","x","t">>
(***************************************************************************)
(* load_all_files: the walk over the files directory.                      *)
(*                                                                         *)
(* A directory is the sequence of its files in the order os.walk yields    *)
(* them: [file_name, readable, text], where text is what the extraction    *)
(* returns and readable = FALSE means that the extraction raises.          *)
(***************************************************************************)
File(file_name, text) ==
    [file_name |-> file_name, readable |-> TRUE, text |-> text]
Unreadable(file_name) ==
    [file_name |-> file_name, readable |-> FALSE, text |-> <<>>]

\* str.endswith(suffix)
EndsWith(str, suffix) ==
    /\ Len(str) >= Len(suffix)
    /\ SubSeq(str, Len(str) - Len(suffix) + 1, Len(str)) = suffix

\* the mime_type of line 53, "" for None
MimeType(file_name) ==
    IF EndsWith(file_name, DotPdf) THEN "application/pdf"
    ELSE IF EndsWith(file_name, DotTxt) THEN "text/plain"
    ELSE ""

\* os.path.join(root, file_name)
FilePath(file_name) == FILES_DIRECTORY \o PathSep \o file_name

\* pdf_texts[file_path] = file_text: an existing key keeps its place in the
\* dict, a new key goes to the end
SetItem(texts, file_path, file_text) ==
    IF \E i \in 1..Len(texts) : texts[i].file_path = file_path
    THEN List([i \in 1..Len(texts) |->
                 IF texts[i].file_path = file_path
                 THEN [file_path |-> file_path, text |-> file_text]
                 ELSE texts[i]])
    ELSE Append(texts, [file_path |-> file_path, text |-> file_text])

\* the body of the loop for one file: what it appends to file_details
DetailsOf(file) ==
    IF MimeType(file.file_name) = "" THEN <<>>
    ELSE << [file_name |-> file.file_name,
             file_path |-> FilePath(file.file_name),
             mime_type |-> MimeType(file.file_name)] >>

\* LoadFile that stores an empty text for a file it cannot read
LoadFileStoresFailures(texts, file) ==
    IF MimeType(file.file_name) # ""
    THEN SetItem(texts, FilePath(file.file_name), file.text)
    ELSE texts

\* the body of the loop for one file: what it does to pdf_texts
LoadFile(texts, file) ==
    IF MimeType(file.file_name) # "" /\ file.readable
    THEN SetItem(texts, FilePath(file.file_name), file.text)
    ELSE texts

\* pdf_texts after the loop has run over the files k.. of the directory
RECURSIVE LoadFrom(_, _, _)
LoadFrom(texts, directory, k) ==
    IF k > Len(directory) THEN texts
    ELSE LoadFrom(LoadFile(texts, directory[k]), directory, k + 1)

\* pdf_texts after load_all_files, which starts from the pdf_texts it finds
load_all_files(texts, directory) == LoadFrom(texts, directory, 1)

\* file_details after load_all_files, which starts from []
FileDetails(directory) ==
    Concat(List([k \in 1..Len(directory) |-> DetailsOf(directory[k])]),
           1, Len(directory))

\* list(pdf_texts.keys())
Keys(texts) == List([i \in 1..Len(texts) |-> texts[i].file_path])

(***************************************************************************)
(* chatbot_respond and the /chat request.                                  *)
(*                                                                         *)
(* A JSON value of the request is [type, value]: null (the key is          *)
(* missing), a string or a number.                                         *)
(***************************************************************************)
Null == [type |-> "null", value |-> <<>>]
Str(chars) == [type |-> "string", value |-> chars]
Num(n) == [type |-> "number", value |-> <<n>>]

\* the test "is not None" in the place of bool(value)
NotNone(json) == json.type # "null"

\* bool(value) of Python
Truthy(json) ==
    CASE json.type = "null" -> FALSE
      [] json.type = "string" -> json.value # <<>>
      [] json.type = "number" -> json.value # <<0>>

\* request.json.get("session_id", "default")
SessionIdOf(json) == IF json.type = "null" THEN Default ELSE json.value

\* the message of the AttributeError of query.strip() on a number
NoStrip == "'int' object has no attribute 'strip'"
\* the message of the error the generation service raises
GenerationFailed == "generation failed"

\* RankFailure without the test of line 98
RankFailureBlankPasses(texts, user_query) ==
    IF texts = <<>> THEN EmptyCorpus
    ELSE IF user_query.type # "string" THEN NoStrip
    ELSE IF Strip(user_query.value) = <<>> THEN ""
    ELSE RankError(texts, user_query.value)

\* what rank_documents(user_query) raises, "" when it returns
RankFailure(texts, user_query) ==
    IF texts = <<>> THEN EmptyCorpus
    ELSE IF user_query.type # "string" THEN NoStrip
    ELSE RankError(texts, user_query.value)

\* the loop of lines 146-147 from position k of ranked_docs on: every
\* document is looked up in the pdf_texts of the moment
RECURSIVE RelevantText(_, _, _)
RelevantText(texts, ranked_docs, k) ==
    IF k > Len(ranked_docs) THEN <<>>
    ELSE Values(texts)[ranked_docs[k]] \o <<"\n">>
            \o RelevantText(texts, ranked_docs, k + 1)

\* PreviousQuestions that reads the record of the default session whatever
\* the session of the turn
PreviousQuestionsOfDefault(history, session_id) ==
    IF Default \in DOMAIN history
    THEN history[Default].follow_up_questions
    ELSE <<>>

\* user_query_history.get(session_id, {}).get("follow_up_questions", [])
PreviousQuestions(history, session_id) ==
    IF session_id \in DOMAIN history
    THEN history[session_id].follow_up_questions
    ELSE <<>>

\* the record of lines 156-160
SessionRecord(user_query, follow_up_questions, relevant_text) ==
    [query |-> user_query,
     follow_up_questions |-> follow_up_questions,
     relevant_text |-> relevant_text]

\* Put that appends the new follow-up questions to those of the record
\* it finds
PutMerged(history, session_id, record) ==
    [k \in DOMAIN history \cup {session_id} |->
        IF k # session_id THEN history[k]
        ELSE IF session_id \in DOMAIN history
        THEN [record EXCEPT !.follow_up_questions =
                 history[session_id].follow_up_questions \o @]
        ELSE record]

\* Put that keeps the record it finds
PutIfAbsent(history, session_id, record) ==
    [k \in DOMAIN history \cup {session_id} |->
        IF k \in DOMAIN history THEN history[k] ELSE record]

\* user_query_history[session_id] = record
Put(history, session_id, record) ==
    [k \in DOMAIN history \cup {session_id} |->
        IF k = session_id THEN record ELSE history[k]]

\* StoredHistory with the write of line 156 moved behind the call of
\* line 172
StoredAfterAnswer(history, session_id, record, answered) ==
    IF answered THEN Put(history, session_id, record) ELSE history

\* user_query_history when chatbot_respond returns: the write of line 156
\* comes before the call of line 172, so it stands whether the generation
\* service answered or raised
StoredHistory(history, session_id, record, answered) ==
    Put(history, session_id, record)

\* the instruction of lines 163-169: the template filled with the query
\* and the relevant text
SystemPrompt(user_query, relevant_text) ==
    [user_query |-> user_query, relevant_text |-> relevant_text]

\* the tuple of line 176
ErrorReturn(message) ==
    [answer |-> [prefix |-> "Error processing your query: ",
                 text |-> message],
     follow_up_questions |-> <<>>]

\* the tuple of line 173
AnswerReturn(text, follow_up_questions) ==
    [answer |-> [prefix |-> "", text |-> Strip(text)],
     follow_up_questions |-> follow_up_questions]

\* SendMessage on a chat session started anew for the call
SendMessageFresh(history, prompt, reply) ==
    << [role |-> "user", parts |-> prompt],
       [role |-> "model", parts |-> reply] >>

\* chat_session.send_message(prompt) when the service answers reply: the
\* instruction and the answer join the history of the one chat session
SendMessage(history, prompt, reply) ==
    history \o << [role |-> "user", parts |-> prompt],
                  [role |-> "model", parts |-> reply] >>

(***************************************************************************)
(* The inputs and the bounds.                                              *)
(***************************************************************************)
\* the states of the files directory a load may find
Directories ==
    { << File(NameA, TextA), File(NameB, TextB), File(NameN, TextN) >>,
      << File(NameB, TextC), Unreadable(NameA) >>,
      << File(NameD, TextEmpty) >> }

\* the "query" values of a /chat request
Queries == {Null, Str(<<>>), Str(QueryBlank), Str(QuerySky), Num(5)}

\* the "session_id" values of a /chat request
SessionIds == {Null, Str(SessionOne)}

\* the outcomes of the call of the generation service: an answer or an error
Outcomes == {TRUE, FALSE}

\* the requests a run handles
MaxRequests == 4

\* the worker threads that serve /chat requests
Threads == {"t1", "t2"}
MainThread == "t1"

(***************************************************************************)
(* The state.                                                              *)
(***************************************************************************)
VARIABLES
    pdf_texts,            \* the dict of line 37: <<[file_path, text], ...>>
    file_details,         \* the list of line 38
    user_query_history,   \* the dict of line 39: session_id -> record
    chat_session,         \* the history of the chat session of line 29
    directory,            \* the files directory as the latest load found it
    frame,                \* per thread: the locals of its chatbot_respond
    response,             \* the response to the latest request
    asked,                \* session_id -> the follow-up questions returned
                          \* to it in its earlier turns
    loader,               \* the locals of the thread in load_all_files
    loads,                \* the number of /load_pdfs requests received
    turns                 \* the number of /chat requests received

vars == << pdf_texts, file_details, user_query_history, chat_session,
           directory, frame, response, asked, loader, loads, turns >>

\* the locals of a thread that is not in chatbot_respond; error is the
\* message of the exception the call raised, "" when it raised none
Idle ==
    [pc |-> "idle", user_query |-> Null, session_id |-> Default,
     all_texts |-> <<>>, ranked_docs |-> <<>>, resolved |-> 0,
     relevant_text |-> <<>>,
     previous_questions |-> <<>>, follow_up_questions |-> <<>>,
     error |-> ""]

\* the loader when no load_all_files runs: found is the directory of the
\* latest load, k the place of the file it comes to next, before the
\* pdf_texts it started from
NoLoad == [pc |-> "idle", found |-> <<>>, k |-> 1, before |-> <<>>]

NoResponse == [route |-> "", status |-> 0]

Init ==
    /\ pdf_texts = <<>>
    /\ file_details = <<>>
    /\ user_query_history = << >>
    /\ chat_session = <<>>
    /\ directory = <<>>
    /\ frame = [t \in Threads |-> Idle]
    /\ response = NoResponse
    /\ asked = [s \in {SessionIdOf(j) : j \in SessionIds} |-> {}]
    /\ loader = NoLoad
    /\ loads = 0
    /\ turns = 0

\* the follow-up questions a turn returned join those asked in the session
Asked(session_id, follow_up_questions) ==
    [asked EXCEPT ![session_id] =
        @ \cup {follow_up_questions[i] : i \in 1..Len(follow_up_questions)}]

(***************************************************************************)
(* The request handlers, each run from its first line to its return.       *)
(***************************************************************************)
\* GET /load_pdfs while the directory holds the files of found
load_pdfs_endpoint(found) ==
    /\ loads + turns < MaxRequests
    /\ directory' = found
    /\ file_details' = FileDetails(found)
    /\ pdf_texts' = load_all_files(pdf_texts, found)
    /\ response' = [route |-> "/load_pdfs", status |-> 200,
                    files |-> FileDetails(found)]
    /\ loads' = loads + 1
    /\ UNCHANGED << user_query_history, chat_session, frame, asked, loader,
                    turns >>

\* POST /chat without a query: line 186
ChatRejected(t, user_query) ==
    /\ ~ Truthy(user_query)
    /\ response' = [route |-> "/chat", status |-> 400,
                    error |-> "Query is required"]
    /\ UNCHANGED << user_query_history, chat_session, frame, asked >>

\* chatbot_respond when rank_documents raises: line 176
RespondRankFailed(t, user_query, session_id) ==
    /\ Truthy(user_query)
    /\ RankFailure(pdf_texts, user_query) # ""
    /\ frame' = [frame EXCEPT ![t] =
                    [Idle EXCEPT !.pc = "done", !.user_query = user_query,
                                 !.session_id = session_id,
                                 !.error = RankFailure(pdf_texts, user_query)]]
    /\ response' = [route |-> "/chat", status |-> 200,
                    body |-> ErrorReturn(RankFailure(pdf_texts, user_query))]
    /\ asked' = asked
    /\ UNCHANGED << user_query_history, chat_session >>

\* chatbot_respond when rank_documents returns ranked_docs: lines 144-176,
\* the generation service answering (answered) or raising
RespondRanked(t, user_query, session_id, ranked_docs, answered) ==
    LET relevant_text == RelevantText(pdf_texts, ranked_docs, 1)
        previous_questions ==
            PreviousQuestions(user_query_history, session_id)
        follow_up_questions ==
            generate_follow_up_questions(relevant_text, previous_questions)
        returned ==
            IF answered
            THEN AnswerReturn(ReplyText, follow_up_questions)
            ELSE ErrorReturn(GenerationFailed)
    IN  /\ frame' = [frame EXCEPT ![t] =
                       [pc |-> "done", user_query |-> user_query,
                        session_id |-> session_id,
                        all_texts |-> Values(pdf_texts),
                        ranked_docs |-> ranked_docs,
                        resolved |-> Len(ranked_docs),
                        relevant_text |-> relevant_text,
                        previous_questions |-> previous_questions,
                        follow_up_questions |-> follow_up_questions,
                        error |-> IF answered THEN ""
                                  ELSE GenerationFailed]]
        /\ user_query_history' =
               StoredHistory(user_query_history, session_id,
                   SessionRecord(user_query.value, follow_up_questions,
                                 relevant_text),
                   answered)
        /\ chat_session' =
               IF answered
               THEN SendMessage(chat_session,
                        SystemPrompt(user_query.value, relevant_text),
                        ReplyText)
               ELSE chat_session
        /\ response' = [route |-> "/chat", status |-> 200, body |-> returned]
        /\ asked' = Asked(session_id, returned.follow_up_questions)

\* POST /chat: lines 181-189
chat(t, user_query, session) ==
    /\ loads + turns < MaxRequests
    /\ turns' = turns + 1
    /\ UNCHANGED << pdf_texts, file_details, directory, loader, loads >>
    /\ \/ ChatRejected(t, user_query)
       \/ RespondRankFailed(t, user_query, SessionIdOf(session))
       \/ /\ Truthy(user_query)
          /\ RankFailure(pdf_texts, user_query) = ""
          /\ \E ranked_docs \in rank_documents(pdf_texts, user_query.value),
                answered \in Outcomes :
                RespondRanked(t, user_query, SessionIdOf(session),
                              ranked_docs, answered)

Next ==
    \/ \E found \in Directories : load_pdfs_endpoint(found)
    \/ \E user_query \in Queries, session \in SessionIds :
          chat(MainThread, user_query, session)

Spec == Init /\ [][Next]_vars

(***************************************************************************)
(* rank_documents on its own: every corpus that two loads can build,       *)
(* every query.                                                            *)
(***************************************************************************)
\* the states of the files directory the loads of SpecRank find
RankDirectories ==
    Directories \cup
    { << File(NameA, TextA), File(NameB, TextB),
         File(NameC, TextC), File(NameE, TextE) >>,
      << File(NameE, TextE), File(NameC, TextC) >> }

\* the corpora that up to two loads build
RankCorpora ==
    {<<>>} \cup
    {load_all_files(<<>>, d) : d \in RankDirectories} \cup
    {load_all_files(load_all_files(<<>>, d), e) :
        d \in RankDirectories, e \in RankDirectories}

\* the queries rank_documents is called with
RankQueries == {<<>>, QueryBlank, QuerySky, QueryStop}

InitRank ==
    /\ pdf_texts \in RankCorpora
    /\ file_details = <<>>
    /\ user_query_history = << >>
    /\ chat_session = <<>>
    /\ directory = <<>>
    /\ frame = [t \in Threads |-> Idle]
    /\ response = NoResponse
    /\ asked = [s \in {SessionIdOf(j) : j \in SessionIds} |-> {}]
    /\ loader = NoLoad
    /\ loads = 0
    /\ turns = 0

\* rank_documents(query) raises
RankRaises(t, query) ==
    /\ RankError(pdf_texts, query) # ""
    /\ frame' = [frame EXCEPT ![t] =
                    [Idle EXCEPT !.pc = "ranked", !.user_query = Str(query),
                                 !.error = RankError(pdf_texts, query)]]

\* rank_documents(query) returns
RankReturns(t, query) ==
    /\ RankError(pdf_texts, query) = ""
    /\ \E ranked_docs \in rank_documents(pdf_texts, query) :
          frame' = [frame EXCEPT ![t] =
                       [Idle EXCEPT !.pc = "ranked",
                                    !.user_query = Str(query),
                                    !.ranked_docs = ranked_docs]]

NextRank ==
    /\ frame[MainThread].pc = "idle"
    /\ \E query \in RankQueries :
          \/ RankRaises(MainThread, query)
          \/ RankReturns(MainThread, query)
    /\ UNCHANGED << pdf_texts, file_details, user_query_history,
                    chat_session, directory, response, asked, loader, loads,
                    turns >>

SpecRank == InitRank /\ [][NextRank]_vars

(***************************************************************************)
(* generate_follow_up_questions on its own: the relevant text of every     *)
(* ranking of up to three documents, every list of previous questions      *)
(* that a turn can have stored.                                            *)
(***************************************************************************)
\* the texts of the documents
DocumentTexts == {TextA, TextB, TextC, TextE, TextEmpty}

\* the relevant texts of lines 146-147: up to TopK texts, each followed by
\* a newline
RelevantTexts ==
    LET Line(text) == text \o <<"\n">>
    IN  {Line(x) : x \in DocumentTexts}
        \cup {Line(x) \o Line(y) : x, y \in DocumentTexts}
        \cup {Line(x) \o Line(y) \o Line(z) : x, y, z \in DocumentTexts}

\* the follow-up lists a session record can hold
StoredQuestions ==
    {<<>>} \cup
    {generate_follow_up_questions(text \o <<"\n">>, <<>>) :
        text \in DocumentTexts}

InitGenerate ==
    /\ pdf_texts = <<>>
    /\ file_details = <<>>
    /\ user_query_history = << >>
    /\ chat_session = <<>>
    /\ directory = <<>>
    /\ frame = [t \in Threads |-> Idle]
    /\ response = NoResponse
    /\ asked = [s \in {SessionIdOf(j) : j \in SessionIds} |-> {}]
    /\ loader = NoLoad
    /\ loads = 0
    /\ turns = 0

\* line 153
Generate(t, relevant_text, previous_questions) ==
    frame' = [frame EXCEPT ![t] =
                 [Idle EXCEPT
                     !.pc = "generated",
                     !.relevant_text = relevant_text,
                     !.previous_questions = previous_questions,
                     !.follow_up_questions =
                         generate_follow_up_questions(relevant_text,
                                                      previous_questions)]]

NextGenerate ==
    /\ frame[MainThread].pc = "idle"
    /\ \E relevant_text \in RelevantTexts,
          previous_questions \in StoredQuestions :
          Generate(MainThread, relevant_text, previous_questions)
    /\ UNCHANGED << pdf_texts, file_details, user_query_history,
                    chat_session, directory, response, asked, loader, loads,
                    turns >>

SpecGenerate == InitGenerate /\ [][NextGenerate]_vars

(***************************************************************************)
(* The handlers run by concurrent threads, one step for every access to    *)
(* pdf_texts, user_query_history or chat_session: the server handles each  *)
(* request in a thread of its own and the handlers take no lock.           *)
(***************************************************************************)
\* the states of the files directory the loads of SpecConcurrent find
ConcurrentDirectories ==
    { << File(NameA, TextA), File(NameB, TextB) >>,
      << Unreadable(NameD), File(NameA, TextE), File(NameB, TextC) >> }

\* the "query" values of the /chat requests of SpecConcurrent
ConcurrentQueries == {Str(QueryBlank), Str(QuerySky)}

\* the requests a run of SpecConcurrent receives
MaxConcurrentRequests == 3

\* line 47: load_all_files starts
LoadStarts(found) ==
    /\ loader.pc = "idle"
    /\ loads + turns < MaxConcurrentRequests
    /\ loads' = loads + 1
    /\ directory' = found
    /\ file_details' = <<>>
    /\ loader' = [pc |-> "walk", found |-> found, k |-> 1,
                  before |-> pdf_texts]
    /\ UNCHANGED << pdf_texts, user_query_history, chat_session, frame,
                    response, asked, turns >>

\* lines 52-71: the body of the loop for the next file
LoadStores ==
    /\ loader.pc = "walk"
    /\ loader.k <= Len(loader.found)
    /\ file_details' = file_details \o DetailsOf(loader.found[loader.k])
    /\ pdf_texts' = LoadFile(pdf_texts, loader.found[loader.k])
    /\ loader' = [loader EXCEPT !.k = @ + 1]
    /\ UNCHANGED << user_query_history, chat_session, directory, frame,
                    response, asked, loads, turns >>

\* lines 73 and 195: load_all_files returns and the response goes out
LoadReturns ==
    /\ loader.pc = "walk"
    /\ loader.k > Len(loader.found)
    /\ loader' = [loader EXCEPT !.pc = "idle"]
    /\ response' = [route |-> "/load_pdfs", status |-> 200,
                    files |-> file_details]
    /\ UNCHANGED << pdf_texts, file_details, user_query_history,
                    chat_session, directory, frame, asked, loads, turns >>

\* lines 182-188 and 143 when rank_documents raises
TurnFailsToRank(t, user_query, session_id) ==
    /\ RankFailure(pdf_texts, user_query) # ""
    /\ frame' = [frame EXCEPT ![t] = Idle]
    /\ response' = [route |-> "/chat", status |-> 200,
                    body |-> ErrorReturn(RankFailure(pdf_texts, user_query))]

\* lines 182-188 and 143-144 when rank_documents returns
TurnRanks(t, user_query, session_id) ==
    /\ RankFailure(pdf_texts, user_query) = ""
    /\ \E ranked_docs \in rank_documents(pdf_texts, user_query.value) :
          frame' = [frame EXCEPT ![t] =
                       [Idle EXCEPT !.pc = "lookup",
                                    !.user_query = user_query,
                                    !.session_id = session_id,
                                    !.all_texts = Values(pdf_texts),
                                    !.ranked_docs = ranked_docs]]
    /\ response' = response

\* a thread takes a /chat request and calls rank_documents; the threads
\* are alike, and the request goes to the first that is free
TurnStarts(t, user_query, session) ==
    /\ frame[t].pc = "idle"
    /\ t = MainThread \/ frame[MainThread].pc # "idle"
    /\ loads + turns < MaxConcurrentRequests
    /\ turns' = turns + 1
    /\ \/ TurnFailsToRank(t, user_query, SessionIdOf(session))
       \/ TurnRanks(t, user_query, SessionIdOf(session))
    /\ UNCHANGED << pdf_texts, file_details, user_query_history,
                    chat_session, directory, asked, loader, loads >>

\* line 147: the text of the next ranked document, from the pdf_texts of
\* this moment
TurnLooksUp(t) ==
    /\ frame[t].pc = "lookup"
    /\ LET k == frame[t].resolved + 1
           text == frame[t].relevant_text
                      \o RelevantText(pdf_texts,
                                      << frame[t].ranked_docs[k] >>, 1)
       IN  frame' = [frame EXCEPT
                        ![t].relevant_text = text,
                        ![t].resolved = k,
                        ![t].pc = IF k = Len(frame[t].ranked_docs)
                                  THEN "generate" ELSE "lookup"]
    /\ UNCHANGED << pdf_texts, file_details, user_query_history,
                    chat_session, directory, response, asked, loader,
                    loads, turns >>

\* lines 150-153: the previous questions are read and the new generated
TurnGenerates(t) ==
    /\ frame[t].pc = "generate"
    /\ LET previous_questions ==
               PreviousQuestions(user_query_history, frame[t].session_id)
       IN  frame' = [frame EXCEPT
                        ![t].previous_questions = previous_questions,
                        ![t].follow_up_questions =
                            generate_follow_up_questions(
                                frame[t].relevant_text, previous_questions),
                        ![t].pc = "store"]
    /\ UNCHANGED << pdf_texts, file_details, user_query_history,
                    chat_session, directory, response, asked, loader,
                    loads, turns >>

\* lines 156-160: the record of the session is written
TurnStores(t) ==
    /\ frame[t].pc = "store"
    /\ user_query_history' =
           Put(user_query_history, frame[t].session_id,
               SessionRecord(frame[t].user_query.value,
                             frame[t].follow_up_questions,
                             frame[t].relevant_text))
    /\ frame' = [frame EXCEPT ![t].pc = "send"]
    /\ UNCHANGED << pdf_texts, file_details, chat_session, directory,
                    response, asked, loader, loads, turns >>

\* lines 172-176: the generation service answers or raises, and
\* chatbot_respond returns
TurnReturns(t, answered) ==
    /\ frame[t].pc = "send"
    /\ chat_session' =
           IF answered
           THEN SendMessage(chat_session,
                    SystemPrompt(frame[t].user_query.value,
                                 frame[t].relevant_text),
                    ReplyText)
           ELSE chat_session
    /\ frame' = [frame EXCEPT ![t] = Idle]
    /\ response' =
           [route |-> "/chat", status |-> 200,
            body |-> IF answered
                     THEN AnswerReturn(ReplyText,
                                       frame[t].follow_up_questions)
                     ELSE ErrorReturn(GenerationFailed)]
    /\ asked' = Asked(frame[t].session_id,
                      response'.body.follow_up_questions)
    /\ UNCHANGED << pdf_texts, file_details, user_query_history, directory,
                    loader, loads, turns >>

NextConcurrent ==
    \/ \E found \in ConcurrentDirectories : LoadStarts(found)
    \/ LoadStores
    \/ LoadReturns
    \/ \E t \in Threads, user_query \in ConcurrentQueries,
          session \in SessionIds : TurnStarts(t, user_query, session)
    \/ \E t \in Threads : TurnLooksUp(t)
    \/ \E t \in Threads : TurnGenerates(t)
    \/ \E t \in Threads : TurnStores(t)
    \/ \E t \in Threads, answered \in Outcomes : TurnReturns(t, answered)

SpecConcurrent == Init /\ [][NextConcurrent]_vars

(***************************************************************************)
(* The properties.                                                         *)
(***************************************************************************)
\* the step is a /chat request that reached chatbot_respond
Responded == turns' = turns + 1 /\ response'.status = 200

\* the locals of the call the step made, and the thread's locals in a state
Called == frame'[MainThread]
Locals == frame[MainThread]

\* the members of a list
Members(list) == {list[i] : i \in 1..Len(list)}

\* the chatbot_respond of the latest request returned the error tuple
ReturnedError ==
    /\ response.route = "/chat" /\ response.status = 200
    /\ response.body.answer.prefix # ""

\* the record of the session holds exactly what the call computed
HoldsTheTurn(history, call) ==
    /\ call.session_id \in DOMAIN history
    /\ call.user_query.type = "string"
    /\ history[call.session_id].query = call.user_query.value
    /\ history[call.session_id].follow_up_questions
           = call.follow_up_questions
    /\ history[call.session_id].relevant_text = call.relevant_text

\* C1: over the turns of one session, no follow-up question that an
\* earlier turn of the session returned is returned by a later turn.
NeverAskedTwice ==
    [][Responded =>
          Members(response'.body.follow_up_questions)
              \cap asked[Called.session_id] = {}]_vars

\* C1 as amended: no follow-up question a turn returns is among those the
\* record of the session holds when the turn starts.
NeverAskedInStoredTurn ==
    [][Responded =>
          Members(response'.body.follow_up_questions)
              \cap Members(PreviousQuestions(user_query_history,
                                             Called.session_id)) = {}]_vars

\* a turn returned questions after skipping a question of its sentences
\* that the record of the session held
SkippedStoredQuestion ==
    /\ response.route = "/chat" /\ response.status = 200
    /\ response.body.follow_up_questions # <<>>
    /\ \E k \in 1..Len(Sentences(Locals.relevant_text)) :
          LET sentence == Strip(Sentences(Locals.relevant_text)[k])
          IN  /\ Len(sentence) > MinSentenceLen
              /\ InList(QuestionOf(sentence), Locals.previous_questions)

\* the documents the latest load extracted
Extracted ==
    {FilePath(directory[k].file_name) : k \in
        {j \in 1..Len(directory) :
            MimeType(directory[j].file_name) # "" /\ directory[j].readable}}

\* C2: after a load the documents of the corpus are those the latest load
\* extracted.
CorpusIsLatestSnapshot ==
    loads > 0 => Members(Keys(pdf_texts)) = Extracted

\* C3: after a turn on a session that has a record, the record holds
\* exactly that turn's query, follow-up questions and relevant text.
RecordIsLatestTurn ==
    [][Responded /\ Called.session_id \in DOMAIN user_query_history
          => HoldsTheTurn(user_query_history', Called)]_vars

\* C3 as amended: after a turn whose ranking succeeded, the record of the
\* session holds exactly that turn's query, follow-up questions and
\* relevant text, and nothing of the turn before.
RecordIsLatestRankedTurn ==
    [][Responded /\ Called.ranked_docs # <<>>
          => HoldsTheTurn(user_query_history', Called)]_vars

\* a second turn replaced a record whose questions it no longer holds
ReplacedRecord ==
    /\ Locals.pc = "done" /\ Locals.ranked_docs # <<>>
    /\ Locals.previous_questions # <<>>
    /\ HoldsTheTurn(user_query_history, Locals)
    /\ Members(Locals.previous_questions)
           \cap Members(Locals.follow_up_questions) = {}

\* C4: when the ranking succeeds and the generation service fails, the
\* caller gets an error answer with no follow-up questions, and the record
\* of the session holds this turn's query, the follow-up questions
\* generated in this turn and its relevant text.
NoRollback ==
    [][Responded /\ Called.error = GenerationFailed
          => /\ response'.body.answer.prefix # ""
             /\ response'.body.follow_up_questions = <<>>
             /\ HoldsTheTurn(user_query_history', Called)
             /\ Called.follow_up_questions =
                   generate_follow_up_questions(
                       Called.relevant_text,
                       PreviousQuestions(user_query_history,
                                         Called.session_id))]_vars

\* the generation failed and the record holds follow-up questions the
\* caller did not get
StoredButNotReturned ==
    /\ ReturnedError /\ Locals.error = GenerationFailed
    /\ response.body.follow_up_questions = <<>>
    /\ user_query_history[Locals.session_id].follow_up_questions # <<>>

\* the ranker fails for the query: the corpus is empty, or the query is
\* not a string, or it is empty or all whitespace
RankerFails(texts, user_query) ==
    \/ texts = <<>>
    \/ user_query.type # "string"
    \/ Strip(user_query.value) = <<>>

\* C5: when the ranker fails, chatbot_respond returns an error answer with
\* no follow-up questions, the generation service is not called and the
\* session store is unchanged.
RankFailureShortCircuits ==
    [][Responded /\ RankerFails(pdf_texts, Called.user_query)
          => /\ response'.body.answer.prefix # ""
             /\ response'.body.follow_up_questions = <<>>
             /\ chat_session' = chat_session
             /\ user_query_history' = user_query_history]_vars

\* a turn failed in the ranker on a session that has a record
FailedOnStoredSession ==
    /\ ReturnedError /\ Locals.error = EmptyQuery
    /\ Locals.session_id \in DOMAIN user_query_history
    /\ pdf_texts # <<>>

\* the questions of the sentences that generate accepts, in sentence order
Accepted(relevant_text, previous_questions) ==
    LET sentences == Sentences(relevant_text)
        IsAccepted(k) ==
            /\ Len(Strip(sentences[k])) > MinSentenceLen
            /\ ~ InList(QuestionOf(Strip(sentences[k])), previous_questions)
        at == Ascending({k \in 1..Len(sentences) : IsAccepted(k)})
    IN  [i \in 1..Len(at) |-> QuestionOf(Strip(sentences[at[i]]))]

\* C6: generate returns at most 3 questions, none of them a member of
\* previousQuestions: the first 3 accepted candidates in sentence order.
GenerateContract ==
    Locals.pc = "generated" =>
        /\ Len(Locals.follow_up_questions) <= 3
        /\ Members(Locals.follow_up_questions)
               \cap Members(Locals.previous_questions) = {}
        /\ LET accepted == Accepted(Locals.relevant_text,
                                    Locals.previous_questions)
           IN  /\ Len(Locals.follow_up_questions)
                     = IF Len(accepted) < 3 THEN Len(accepted) ELSE 3
               /\ \A i \in 1..Len(Locals.follow_up_questions) :
                     Locals.follow_up_questions[i] = accepted[i]

\* generate stopped at 3 with a candidate left, after skipping a previous
\* question
CappedAndDeduplicated ==
    /\ Locals.pc = "generated"
    /\ Len(Locals.follow_up_questions) = 3
    /\ Len(Accepted(Locals.relevant_text, Locals.previous_questions)) > 3
    /\ Len(Accepted(Locals.relevant_text, <<>>))
           > Len(Accepted(Locals.relevant_text, Locals.previous_questions))

\* a step in which thread t reads pdf_texts: rank_documents at line 143, or
\* the lookup of one ranked document at line 147
RanksNow(t) == frame[t].pc = "idle" /\ frame'[t].pc = "lookup"
LooksUpNow(t) == frame[t].pc = "lookup" /\ frame'[t] # frame[t]

\* pdf_texts as the load that runs, or ran last, leaves it
LoadTarget == load_all_files(loader.before, loader.found)

\* the documents the load that runs, or ran last, extracts
ExtractedByLoad ==
    { [file_path |-> FilePath(loader.found[i].file_name),
       text |-> loader.found[i].text] :
         i \in {j \in 1..Len(loader.found) :
                   /\ loader.found[j].readable
                   /\ MimeType(loader.found[j].file_name) # ""} }

\* C7, as the spec states it: whenever a turn reads the corpus, to rank or
\* to resolve a ranked index, it finds the complete corpus from before the
\* load or the complete corpus the load leaves, and it resolves the indices
\* against the texts it ranked.
LoadIsAtomic ==
    [][\A t \in Threads :
          /\ RanksNow(t) \/ LooksUpNow(t)
                => pdf_texts \in {loader.before, LoadTarget}
          /\ LooksUpNow(t) => Values(pdf_texts) = frame[t].all_texts]_vars

\* C7, as the code has it: load_all_files stores the documents one at a
\* time into the corpus the turns read, so a turn can read a corpus that is
\* partly loaded; what it finds for each single document is the document
\* from before the load or the document the load extracted.
LoadIsAtomicPerDocument ==
    [][\A t \in Threads :
          RanksNow(t) \/ LooksUpNow(t)
             => \A i \in 1..Len(pdf_texts) :
                   pdf_texts[i] \in Members(loader.before)
                                       \cup ExtractedByLoad]_vars

\* C7: a turn has ranked a corpus in which one document is still the one
\* from before the running load and another is already the one the load
\* extracted
RankedPartlyLoadedCorpus ==
    /\ loader.pc = "walk"
    /\ pdf_texts \notin {loader.before, LoadTarget}
    /\ \E i, j \in 1..Len(pdf_texts) :
          /\ pdf_texts[i] \in Members(loader.before) \ Members(LoadTarget)
          /\ pdf_texts[j] \in Members(LoadTarget) \ Members(loader.before)
    /\ \E t \in Threads :
          /\ frame[t].pc = "lookup"
          /\ frame[t].all_texts = Values(pdf_texts)

\* a step in which thread t writes the record of its session (line 156),
\* and one in which its chatbot_respond returns (lines 173, 176)
StoresNow(t) == frame[t].pc = "store" /\ frame'[t].pc = "send"
ReturnsNow(t) == frame[t].pc = "send" /\ frame'[t].pc = "idle"

\* every write leaves exactly the writer's record in its session and the
\* other sessions alone, and nothing else changes a record
LastWriteWins ==
    /\ \A t \in Threads :
          StoresNow(t) =>
             /\ HoldsTheTurn(user_query_history', frame[t])
             /\ \A s \in DOMAIN user_query_history \ {frame[t].session_id} :
                   /\ s \in DOMAIN user_query_history'
                   /\ user_query_history'[s] = user_query_history[s]
    /\ (\A t \in Threads : ~StoresNow(t))
          => user_query_history' = user_query_history

\* C8, as the spec states it: of the turns that run at once on a session,
\* the record is entirely the one of the turn that wrote last, and every
\* turn returns the follow-up questions it computed.
ConcurrentTurnsLastWriteWins ==
    [][/\ LastWriteWins
       /\ \A t \in Threads :
             ReturnsNow(t) => response'.body.follow_up_questions
                                 = frame[t].follow_up_questions]_vars

\* C8, as the code has it: the record is entirely the one of the turn that
\* wrote last; a turn whose generation call answers returns the follow-up
\* questions it computed, and one whose generation call fails returns none,
\* though its record, with its questions, is written.
ConcurrentTurnsReturnOwnOrNone ==
    [][/\ LastWriteWins
       /\ \A t \in Threads :
             ReturnsNow(t) =>
                response'.body.follow_up_questions
                   = IF response'.body.answer.prefix = ""
                     THEN frame[t].follow_up_questions
                     ELSE <<>>]_vars

\* C8: two turns ran at once on one session and both have written their
\* record, neither having seen the other's; t1 wrote last, and the record
\* kept is t1's and holds nothing of the different questions of t2
RacedOnOneSession ==
    /\ frame["t1"].pc = "send" /\ frame["t2"].pc = "send"
    /\ frame["t1"].session_id = frame["t2"].session_id
    /\ frame["t1"].previous_questions = <<>>
    /\ frame["t2"].previous_questions = <<>>
    /\ frame["t1"].follow_up_questions # <<>>
    /\ frame["t2"].follow_up_questions # <<>>
    /\ frame["t1"].follow_up_questions # frame["t2"].follow_up_questions
    /\ HoldsTheTurn(user_query_history, frame["t1"])

\* rank_documents was called with an empty or all-whitespace query
RankedBlank ==
    Locals.pc = "ranked" /\ Strip(Locals.user_query.value) = <<>>

\* C9: rank fails with EmptyQuery for an empty or all-whitespace query,
\* whatever the corpus holds.
BlankQueryIsEmptyQuery ==
    RankedBlank => Locals.error = EmptyQuery

\* C9 as amended: for an empty or all-whitespace query rank fails with
\* EmptyQuery when the corpus holds a document, and with EmptyCorpus when
\* it holds none.
BlankQueryFailsAfterCorpusCheck ==
    RankedBlank =>
        Locals.error = IF pdf_texts = <<>> THEN EmptyCorpus ELSE EmptyQuery

\* rank_documents raised EmptyQuery on a corpus that holds documents
BlankQueryOnLoadedCorpus ==
    RankedBlank /\ pdf_texts # <<>> /\ Locals.error = EmptyQuery

\* the scores of the documents for the query of the call
Scores == CosineSim(Values(pdf_texts), Locals.user_query.value)

\* rank_documents returned
Ranked == Locals.pc = "ranked" /\ Locals.error = ""

\* the documents rank_documents left out
LeftOut == (1..Len(pdf_texts)) \ Members(Locals.ranked_docs)

\* document a ranks before document b: a higher score, or the same score
\* and an earlier place in the corpus
RanksBefore(a, b) ==
    \/ Scores[a] > Scores[b]
    \/ Scores[a] = Scores[b] /\ a < b

\* C10: the result is in descending score order, documents of equal score
\* in corpus order, and the same order decides which documents are left
\* out at the cut-off.
TiesInCorpusOrder ==
    Ranked =>
        /\ \A i, j \in 1..Len(Locals.ranked_docs) :
              i < j => RanksBefore(Locals.ranked_docs[i],
                                   Locals.ranked_docs[j])
        /\ \A a \in Members(Locals.ranked_docs), b \in LeftOut :
              RanksBefore(a, b)

\* C10 as amended: the result is in descending score order and no document
\* left out has a higher score than a selected one; documents of equal
\* score come in no fixed order.
DescendingScores ==
    Ranked =>
        /\ \A i, j \in 1..Len(Locals.ranked_docs) :
              i < j => Scores[Locals.ranked_docs[i]]
                           >= Scores[Locals.ranked_docs[j]]
        /\ \A a \in Members(Locals.ranked_docs), b \in LeftOut :
              Scores[a] >= Scores[b]

\* scores differ among the selected documents, and a document is left out
\* at the cut-off in favour of a later document of the same score
LaterDocumentWinsTie ==
    /\ Ranked
    /\ \E a, b \in Members(Locals.ranked_docs) : Scores[a] > Scores[b]
    /\ \E a \in Members(Locals.ranked_docs), b \in LeftOut :
          Scores[a] = Scores[b] /\ b < a

\* the documents whose extraction failed in the latest load
FailedToExtract ==
    {FilePath(directory[k].file_name) : k \in
        {j \in 1..Len(directory) :
            MimeType(directory[j].file_name) # "" /\ ~directory[j].readable}}

\* C11: after a load the corpus holds no text for a document whose
\* extraction failed in that load, and holds the text the load extracted
\* for every other document of the batch.
FailedDocumentIsOmitted ==
    loads > 0 =>
       /\ FailedToExtract \cap Members(Keys(pdf_texts)) = {}
       /\ \A k \in 1..Len(directory) :
             MimeType(directory[k].file_name) # "" /\ directory[k].readable
                => [file_path |-> FilePath(directory[k].file_name),
                    text |-> directory[k].text] \in Members(pdf_texts)

\* rank_documents was called with a query that is not blank, on a corpus
\* that holds a document
RankedNonBlank ==
    /\ Locals.pc = "ranked"
    /\ pdf_texts # <<>>
    /\ Strip(Locals.user_query.value) # <<>>

\* C12: for a corpus that holds documents and a query that is not blank,
\* rank returns min(3, number of documents) results, every one the index of
\* a document of the corpus, none twice.
RankReturnsTopDocuments ==
    RankedNonBlank =>
       /\ Locals.error = ""
       /\ Len(Locals.ranked_docs) = Min({TopK, Len(pdf_texts)})
       /\ \A i \in 1..Len(Locals.ranked_docs) :
             Locals.ranked_docs[i] \in 1..Len(pdf_texts)
       /\ \A i, j \in 1..Len(Locals.ranked_docs) :
             i # j => Locals.ranked_docs[i] # Locals.ranked_docs[j]

\* the generation service answered the call the step made
Answered == Responded /\ Called.pc = "done" /\ Called.error = ""

\* C13: there is one conversational context for all sessions: the call of
\* a turn, whatever its session, is made on the whole history of the
\* instructions and answers of the earlier turns of every session, and
\* adds its own instruction and answer to it; nothing else changes the
\* history.
SharedChatContext ==
    [][IF Answered
       THEN /\ Len(chat_session') = Len(chat_session) + 2
            /\ \A i \in 1..Len(chat_session) :
                  chat_session'[i] = chat_session[i]
            /\ chat_session'[Len(chat_session) + 1] =
                  [role |-> "user",
                   parts |-> SystemPrompt(Called.user_query.value,
                                          Called.relevant_text)]
            /\ chat_session'[Len(chat_session) + 2].role = "model"
       ELSE chat_session' = chat_session]_vars

\* two turns were answered, the first on the default session and the
\* second on another: the call of the second was made on a history that
\* begins with the instruction of the first
SawOtherSessionsInstruction ==
    /\ turns = 2 /\ Len(chat_session) = 4
    /\ Locals.pc = "done" /\ Locals.error = ""
    /\ Locals.session_id = SessionOne
    /\ Default \in DOMAIN user_query_history
    /\ chat_session[1] =
          [role |-> "user",
           parts |-> SystemPrompt(user_query_history[Default].query,
                                  user_query_history[Default].relevant_text)]
    /\ chat_session[3] =
          [role |-> "user",
           parts |-> SystemPrompt(Locals.user_query.value,
                                  Locals.relevant_text)]

\* C14: the file paths of the descriptors a load returns are the file
\* paths of the documents the corpus holds after it.
DescriptorsAreTheCorpus ==
    response.route = "/load_pdfs" =>
        {response.files[i].file_path : i \in 1..Len(response.files)}
            = Members(Keys(pdf_texts))

\* a "query" value that is a string with a character that is not whitespace
WellFormed(json) == json.type = "string" /\ Strip(json.value) # <<>>

\* a "query" value that is missing, an empty string or the number 0
Missing(json) ==
    \/ json.type = "null"
    \/ json.type = "string" /\ json.value = <<>>
    \/ json.type = "number" /\ json.value = <<0>>

\* a /chat request was handled in the step
Chatted == turns' = turns + 1

\* the step left alone the locals of chatbot_respond, the session store and
\* the chat session of the generation service
EngineUntouched ==
    /\ frame' = frame
    /\ user_query_history' = user_query_history
    /\ chat_session' = chat_session

\* C15: a /chat request is either rejected with the request error, and then
\* chatbot_respond is not called and nothing of the engine is touched, or
\* chatbot_respond is called, and then the query is a string that is not
\* empty and not all whitespace: no missing, empty, all-whitespace or
\* non-string query gets past the request boundary.
MalformedQueryIsRejected ==
    [][Chatted =>
          \/ response'.status = 400 /\ EngineUntouched
          \/ response'.status = 200 /\ WellFormed(Called.user_query)]_vars

\* C15 as amended: the request boundary rejects the query that is missing or
\* empty, and then nothing of the engine is touched; an all-whitespace or
\* non-string query gets past it, chatbot_respond is called and the ranker
\* fails: the caller gets the error answer with no follow-up questions, and
\* the session store and the chat session are unchanged.
OnlyMissingQueryIsRejected ==
    [][Chatted =>
          \/ response'.status = 400 /\ EngineUntouched
          \/ /\ response'.status = 200
             /\ ~Missing(Called.user_query)
             /\ ~WellFormed(Called.user_query) =>
                   /\ Called.error \in {EmptyCorpus, EmptyQuery, NoStrip}
                   /\ response'.body.answer.prefix # ""
                   /\ response'.body.follow_up_questions = <<>>
                   /\ user_query_history' = user_query_history
                   /\ chat_session' = chat_session]_vars

\* a query that is not a string got past the request boundary and failed in
\* the ranker, on a corpus that holds documents
NonStringReachedTheRanker ==
    /\ response.route = "/chat" /\ response.status = 200
    /\ Locals.pc = "done" /\ Locals.user_query.type = "number"
    /\ pdf_texts # <<>>
    /\ Locals.error = NoStrip
    /\ response.body.answer.prefix # ""

\* C16: rank never fails with InsufficientCorpus, and on a corpus of one
\* document it returns that document for every query that is not blank.
SingleDocumentIsRanked ==
    Locals.pc = "ranked" =>
       /\ Locals.error # InsufficientCorpus
       /\ RankedNonBlank /\ Len(pdf_texts) = 1
             => Locals.error = "" /\ Locals.ranked_docs = << 1 >>

\* the candidate questions of a call of generate, in sentence order, when
\* the sentences that produce one are those of a trimmed length of at
\* least shortest: the questions of these sentences that are not among the
\* previous questions
Candidates(shortest) ==
    LET sentences == Sentences(Locals.relevant_text)
        at == Ascending({k \in 1..Len(sentences) :
                  /\ Len(Strip(sentences[k])) >= shortest
                  /\ ~ InList(QuestionOf(Strip(sentences[k])),
                              Locals.previous_questions)})
    IN  List([i \in 1..Len(at) |-> QuestionOf(Strip(sentences[at[i]]))])

\* C17: the sentences that produce a question are those of a trimmed
\* length of 20 or more: generate returns the first 3 of their candidates.
ThresholdIsTwenty ==
    Locals.pc = "generated" =>
        Locals.follow_up_questions = Take(Candidates(20), 3)

\* C17 as amended: the sentences that produce a question are those of a
\* trimmed length of more than 20, so 21 or more: a sentence of exactly 20
\* characters produces none.
ThresholdIsAboveTwenty ==
    Locals.pc = "generated" =>
        Locals.follow_up_questions = Take(Candidates(MinSentenceLen + 1), 3)

\* generate had room for another question and left out the question, not
\* a previous one, of a sentence of exactly 20 characters
SentenceOfTwentySkipped ==
    /\ Locals.pc = "generated"
    /\ Len(Locals.follow_up_questions) < 3
    /\ \E k \in 1..Len(Sentences(Locals.relevant_text)) :
          LET sentence == Strip(Sentences(Locals.relevant_text)[k])
          IN  /\ Len(sentence) = 20
              /\ ~ InList(QuestionOf(sentence), Locals.previous_questions)
              /\ ~ InList(QuestionOf(sentence), Locals.follow_up_questions)

\* no member of the list comes twice
Distinct(list) ==
    \A i, j \in 1..Len(list) : i # j => list[i] # list[j]

\* C18: the follow-up questions one call of generate returns are pairwise
\* distinct, and so are those of every session record and those a turn
\* returns.
QuestionsOfACallAreDistinct ==
    /\ \A t \in Threads : Distinct(frame[t].follow_up_questions)
    /\ \A s \in DOMAIN user_query_history :
          Distinct(user_query_history[s].follow_up_questions)
    /\ response.route = "/chat" /\ response.status = 200
          => Distinct(response.body.follow_up_questions)

\* the follow-up questions the store holds for the session of the call the
\* step made, as the step found the store
OwnStoredQuestions ==
    IF Called.session_id \in DOMAIN user_query_history
    THEN user_query_history[Called.session_id].follow_up_questions
    ELSE <<>>

\* C19: a turn, whether it succeeds or fails, leaves the record of every
\* session other than its own as it was and adds no record but its own;
\* the questions it generates are deduplicated against the stored questions
\* of its own session and no other.
SessionsAreIsolated ==
    [][Responded =>
          /\ \A s \in DOMAIN user_query_history \ {Called.session_id} :
                /\ s \in DOMAIN user_query_history'
                /\ user_query_history'[s] = user_query_history[s]
          /\ DOMAIN user_query_history' \subseteq
                DOMAIN user_query_history \cup {Called.session_id}
          /\ Called.error \in {"", GenerationFailed} =>
                /\ Called.previous_questions = OwnStoredQuestions
                /\ Called.follow_up_questions =
                      generate_follow_up_questions(Called.relevant_text,
                                                   OwnStoredQuestions)]_vars

\* a turn on one session was answered with a question that the record of
\* the default session holds, and that record was left as it was: the turn
\* holds other questions, or another relevant text
AskedWhatAnotherSessionHolds ==
    /\ Locals.pc = "done" /\ Locals.error = ""
    /\ Locals.session_id = SessionOne
    /\ Default \in DOMAIN user_query_history
    /\ SessionOne \in DOMAIN user_query_history
    /\ \E q \in Members(Locals.follow_up_questions) :
          q \in Members(user_query_history[Default].follow_up_questions)
    /\ user_query_history[Default] # user_query_history[SessionOne]

====
